---- MODULE Spec2Model ----
(***************************************************************************)
(* The normaliser and realiser of src/fstate.cc as a state machine.        *)
(*                                                                         *)
(* normaliseFState, realiseSlice and runProgram are run on an explicit     *)
(* call stack, one step per loop iteration or system call.  A C++          *)
(* exception is never caught in this file, so a throw unwinds the whole    *)
(* stack to the top-level caller.  The store of terms, the filesystem, the *)
(* two database tables and the builder child are the state.                *)
(***************************************************************************)
EXTENDS Integers, Sequences, FiniteSets, TLC

(* ------------------------------ bounds --------------------------------- *)

\* times the embedder makes its top-level call (the call, then repeats of it)
MaxCalls == 2
\* registerSuccessor calls made by the embedder in one behaviour
MaxSucc == 2
\* depth of the call stack (successor edges can make the recursion endless)
MaxDepth == 4
\* longest slice the embedder hands to realiseSlice
MaxElems == 2
\* iterations of one successor loop that are followed
MaxHops == 4

(* ----------------------------- universe -------------------------------- *)

Paths == {"/s/a", "/s/b"}
Hashes == {"H1", "H2"}
Ids == {"I1", "I2", "I3"}
Platforms == {"host", "other"}

\* globals.hh thisSystem, compared in checkPlatform
thisSystem == "host"

NoId == "none"
Absent == "absent"

(* ------------------------------- terms --------------------------------- *)

SliceElem(p, i) == [path |-> p, id |-> i, refs |-> <<>>]

OutPath(p, i) == [path |-> p, id |-> i]

\* what ATreadFromNamedFile cannot read, or an id expandId cannot expand
NoTerm == [type |-> "NoTerm"]

\* a readable term that is neither Slice(..) nor Derive(..)
OtherTerm == [type |-> "Include"]

SliceTerm(r, e) == [type |-> "Slice", roots |-> r, elems |-> e]

DeriveTerm(o, i, pl) == [type |-> "Derive", outs |-> o, ins |-> i, platform |-> pl]

\* the value parseSlice builds from a Slice term
parseSlice(t) == [roots |-> t.roots, elems |-> t.elems]

EmptySliceValue == [roots |-> <<>>, elems |-> <<>>]

(* ------------------------------ the store ------------------------------ *)

Ea1 == SliceElem("/s/a", "H1")
Ea2 == SliceElem("/s/a", "H2")
Eb2 == SliceElem("/s/b", "H2")
Oa == OutPath("/s/a", "H1")
Ob == OutPath("/s/b", "H2")

\* Terms are immutable and content-addressed: a term names its inputs by
\* their hashes, so the input relation is a DAG (I1 below I2 below I3).
Terms1 ==
  { NoTerm,
    SliceTerm(<<"H1">>, <<Ea1>>),
    SliceTerm(<<"H1">>, <<>>),
    SliceTerm(<<"H2">>, <<Ea2, Eb2>>),
    DeriveTerm(<<Oa>>, <<>>, "host"),
    DeriveTerm(<<Oa>>, <<>>, "other") }

Terms2 ==
  { OtherTerm,
    SliceTerm(<<"H2">>, <<Eb2>>),
    DeriveTerm(<<Oa, Ob>>, <<>>, "host"),
    DeriveTerm(<<Ob>>, <<"I1">>, "host") }

Terms3 ==
  { DeriveTerm(<<Ob>>, <<"I1", "I2">>, "host"),
    DeriveTerm(<<Ob, Oa>>, <<"I2", "I1">>, "host"),
    DeriveTerm(<<Oa>>, <<"I1", "I2">>, "other") }

StoreOf(t1, t2, t3) ==
  [i \in Ids |-> CASE i = "I1" -> t1 [] i = "I2" -> t2 [] OTHER -> t3]

Stores == {StoreOf(t1, t2, t3) : t1 \in Terms1, t2 \in Terms2, t3 \in Terms3}

\* a path on disk and in dbPath2Id: <<hashPath or Absent, registered id or NoId>>
AllPathStates == (Hashes \cup {Absent}) \X (Hashes \cup {NoId})

\* absent; squatted; installed under H1; installed under H2
SomePathStates ==
  { <<Absent, NoId>>, <<"H1", NoId>>, <<"H1", "H1">>, <<"H2", "H2">> }

NoSuccessors == [i \in Ids |-> NoId]

(* ------------------------------- state --------------------------------- *)

VARIABLES
  terms,         \* the store: id -> term (what termFromId reads)
  fs,            \* filesystem: path -> hashPath of what is there, or Absent
  dbPath2Id,     \* database table dbPath2Id: path -> id, or NoId
  dbSuccessors,  \* database table dbSuccessors: id -> id, or NoId
  stack,         \* call stack, innermost frame last
  tmpDirs,       \* number of runProgram working directories on disk
  children,      \* number of live builder child processes
  call,          \* the top-level call in progress or last finished
  result,        \* what the last top-level call returned or threw
  pre,           \* filesystem and dbPath2Id when the top-level call started
  ran,           \* ids of the Derives whose builder runProgram was called for
  regd,          \* <<id, path>>: output paths the Derive branch registered
  checked,       \* ids of the Derives whose output precheck was made
  expanded,      \* paths expandId was called for
  prev,          \* what the top-level call before this one returned or threw
  status,        \* how the last builder child ended
  calls, succs,  \* counters of the bounded environment
  registered     \* <<id1, id2>>: the registerSuccessor calls made so far

vars == <<terms, fs, dbPath2Id, dbSuccessors, stack, tmpDirs, children,
          call, result, pre, ran, regd, checked, expanded, prev, status, calls, succs, registered>>

NoCall == [fn |-> "none"]
Running == [kind |-> "running"]
Thrown(e) == [kind |-> "error", err |-> e]
Returned(sl) == [kind |-> "slice", slice |-> sl]
Done == [kind |-> "void"]

\* the state the embedder starts from: a store, each path in one of the
\* states ps, a successor index among sx, nothing running
InitFrom(S, ps, sx) ==
  /\ terms \in S
  /\ \E st \in [Paths -> ps] :
       /\ fs = [p \in Paths |-> st[p][1]]
       /\ dbPath2Id = [p \in Paths |-> st[p][2]]
  /\ dbSuccessors \in sx
  /\ stack = <<>>
  /\ tmpDirs = 0
  /\ children = 0
  /\ call = NoCall
  /\ result = Running
  /\ pre = [fs |-> fs, db |-> dbPath2Id]
  /\ ran = {}
  /\ regd = {}
  /\ checked = {}
  /\ expanded = {}
  /\ prev = Running
  /\ status = "none"
  /\ calls = 0
  /\ succs = 0
  /\ registered = {}

Init ==
  InitFrom(Stores, SomePathStates,
           { NoSuccessors,
             [NoSuccessors EXCEPT !["I3"] = "I2"],
             [NoSuccessors EXCEPT !["I2"] = "I1"] })

Idle == stack = <<>>

Top == stack[Len(stack)]
Pop(s) == SubSeq(s, 1, Len(s) - 1)
SetTop(s, f) == [s EXCEPT ![Len(s)] = f]
In(fn, pc) == stack # <<>> /\ Top.fn = fn /\ Top.pc = pc

pathExists(p) == fs[p] # Absent

(* ------------------------------- frames -------------------------------- *)

\* normaliseFState(id): arg is the id passed in, id the one being chased,
\* hops the iterations of the successor loop made so far
NFrame(i) ==
  [fn |-> "normaliseFState", pc |-> "chase", arg |-> i, id |-> i, hops |-> 0,
   inIdx |-> 1, cur |-> EmptySliceValue, inElems |-> <<>>, inPaths |-> {},
   outIdx |-> 1, slice |-> EmptySliceValue]

RFrame(sl) == [fn |-> "realiseSlice", pc |-> "check", slice |-> sl, idx |-> 1]

PFrame == [fn |-> "runProgram", pc |-> "start"]

\* an exception that the calling frame swallows, going on with its next input
ThrowCaught(e) ==
  IF Len(stack) = 1
  THEN /\ stack' = <<>>
       /\ result' = Thrown(e)
  ELSE /\ stack' = SetTop(Pop(stack),
                     [stack[Len(stack) - 1] EXCEPT
                        !.pc = "inputs",
                        !.inIdx = stack[Len(stack) - 1].inIdx + 1])
       /\ UNCHANGED result

\* an exception: nothing in fstate.cc catches, the whole stack unwinds
Throw(e) ==
  /\ stack' = <<>>
  /\ result' = Thrown(e)

\* normaliseFState returns sl: to the embedder, or into line 501
ReturnSlice(sl) ==
  IF Len(stack) = 1
  THEN /\ stack' = <<>>
       /\ result' = Returned(sl)
  ELSE /\ stack' = SetTop(Pop(stack),
                     [stack[Len(stack) - 1] EXCEPT !.pc = "realise", !.cur = sl])
       /\ UNCHANGED result

ElemPaths(es) == {es[k].path : k \in 1..Len(es)}

\* realiseSlice returns: to the embedder, or into lines 504-509
ReturnVoid ==
  IF Len(stack) = 1
  THEN /\ stack' = <<>>
       /\ result' = Done
  ELSE LET c == stack[Len(stack) - 1] IN
       /\ stack' = SetTop(Pop(stack),
                     [c EXCEPT !.pc = "inputs",
                               !.inIdx = c.inIdx + 1,
                               !.inElems = c.inElems \o c.cur.elems,
                               !.inPaths = c.inPaths \cup ElemPaths(c.cur.elems)])
       /\ UNCHANGED result

(* --------------------------- normaliseFState --------------------------- *)

\* the embedder calls normaliseFState(i)
normaliseCall(i) ==
  /\ Idle
  /\ calls < MaxCalls
  /\ calls = 0 \/ call = [fn |-> "normaliseFState", id |-> i]
  /\ stack' = <<NFrame(i)>>
  /\ call' = [fn |-> "normaliseFState", id |-> i]
  /\ result' = Running
  /\ pre' = [fs |-> fs, db |-> dbPath2Id]
  /\ ran' = {}
  /\ regd' = {}
  /\ checked' = {}
  /\ expanded' = {}
  /\ prev' = result
  /\ calls' = calls + 1
  /\ UNCHANGED <<terms, fs, dbPath2Id, dbSuccessors, tmpDirs, children, status, succs, registered>>

\* lines 470-473: one iteration of the successor loop
NextId(i) == dbSuccessors[i]

Chase ==
  /\ In("normaliseFState", "chase")
  /\ dbSuccessors[Top.id] # NoId
  /\ Top.hops < MaxHops
  /\ stack' = SetTop(stack, [Top EXCEPT !.id = NextId(Top.id),
                                        !.hops = Top.hops + 1])
  /\ UNCHANGED <<terms, fs, dbPath2Id, dbSuccessors, tmpDirs, children,
                 call, result, pre, ran, regd, checked, expanded, prev, status, calls, succs, registered>>

\* a platform check that accepts every platform
checkPlatformAny(platform) == TRUE

\* lines 124-129
checkPlatform(platform) == platform = thisSystem

\* a load that parses the term of the id the call was made with
LoadArg ==
  /\ In("normaliseFState", "chase")
  /\ dbSuccessors[Top.id] = NoId
  /\ LET t == terms[Top.arg] IN
       IF t.type = "NoTerm" THEN Throw("StoreError")
       ELSE IF t.type = "Slice" THEN ReturnSlice(parseSlice(t))
       ELSE IF t.type # "Derive" THEN Throw("BadTerm")
       ELSE IF ~checkPlatform(t.platform) THEN Throw("PlatformMismatch")
       ELSE /\ stack' = SetTop(stack, [Top EXCEPT !.pc = "inputs"])
            /\ UNCHANGED result
  /\ UNCHANGED <<terms, fs, dbPath2Id, dbSuccessors, tmpDirs, children,
                 call, pre, ran, regd, checked, expanded, prev, status, calls, succs, registered>>

\* lines 476-492: the loop ends, the term is read and dispatched on
Load ==
  /\ In("normaliseFState", "chase")
  /\ dbSuccessors[Top.id] = NoId
  /\ LET t == terms[Top.id] IN
       IF t.type = "NoTerm" THEN Throw("StoreError")
       ELSE IF t.type = "Slice" THEN ReturnSlice(parseSlice(t))
       ELSE IF t.type # "Derive" THEN Throw("BadTerm")
       ELSE IF ~checkPlatform(t.platform) THEN Throw("PlatformMismatch")
       ELSE /\ stack' = SetTop(stack, [Top EXCEPT !.pc = "inputs"])
            /\ UNCHANGED result
  /\ UNCHANGED <<terms, fs, dbPath2Id, dbSuccessors, tmpDirs, children,
                 call, pre, ran, regd, checked, expanded, prev, status, calls, succs, registered>>

\* line 501: normaliseFState(*i) for the next input
CallInput ==
  /\ In("normaliseFState", "inputs")
  /\ Top.inIdx <= Len(terms[Top.id].ins)
  /\ Len(stack) < MaxDepth
  /\ stack' = Append(SetTop(stack, [Top EXCEPT !.pc = "waitNorm"]),
                     NFrame(terms[Top.id].ins[Top.inIdx]))
  /\ UNCHANGED <<terms, fs, dbPath2Id, dbSuccessors, tmpDirs, children,
                 call, result, pre, ran, regd, checked, expanded, prev, status, calls, succs, registered>>

\* line 502: realiseSlice(slice) for the input just normalised
CallRealise ==
  /\ In("normaliseFState", "realise")
  /\ Len(stack) < MaxDepth
  /\ stack' = Append(SetTop(stack, [Top EXCEPT !.pc = "waitReal"]),
                     RFrame(Top.cur))
  /\ UNCHANGED <<terms, fs, dbPath2Id, dbSuccessors, tmpDirs, children,
                 call, result, pre, ran, regd, checked, expanded, prev, status, calls, succs, registered>>

\* a precheck that looks at the first declared output only
OutputExistsFirstOnly(outs) == Len(outs) > 0 /\ pathExists(outs[1].path)

\* lines 539-542: does any declared output path exist?
OutputExists(outs) == \E k \in 1..Len(outs) : pathExists(outs[k].path)

\* a precheck and builder run that do not wait for the input loop
PrecheckEarly ==
  /\ In("normaliseFState", "inputs")
  /\ checked' = checked \cup {Top.id}
  /\ IF OutputExists(terms[Top.id].outs)
     THEN /\ Throw("OutputObstructed")
          /\ UNCHANGED ran
     ELSE /\ Len(stack) < MaxDepth
          /\ stack' = Append(SetTop(stack, [Top EXCEPT !.pc = "waitRun"]), PFrame)
          /\ ran' = ran \cup {Top.id}
          /\ UNCHANGED result
  /\ UNCHANGED <<terms, fs, dbPath2Id, dbSuccessors, tmpDirs, children,
                 call, pre, regd, expanded, prev, status, calls, succs, registered>>

\* lines 512-545: inputs done; environment, output precheck, runProgram
Precheck ==
  /\ In("normaliseFState", "inputs")
  /\ Top.inIdx > Len(terms[Top.id].ins)
  /\ checked' = checked \cup {Top.id}
  /\ IF OutputExists(terms[Top.id].outs)
     THEN /\ Throw("OutputObstructed")
          /\ UNCHANGED ran
     ELSE /\ Len(stack) < MaxDepth
          /\ stack' = Append(SetTop(stack, [Top EXCEPT !.pc = "waitRun"]), PFrame)
          /\ ran' = ran \cup {Top.id}
          /\ UNCHANGED result
  /\ UNCHANGED <<terms, fs, dbPath2Id, dbSuccessors, tmpDirs, children,
                 call, pre, regd, expanded, prev, status, calls, succs, registered>>

\* an output loop that registers without looking
OutputMissingNever(o) == FALSE

\* line 555
OutputMissing(o) == ~pathExists(o.path)

\* an output loop that registers nothing unless every output is there
RegisterOutputAllOrNone ==
  /\ In("normaliseFState", "outputs")
  /\ Top.outIdx <= Len(terms[Top.id].outs)
  /\ LET o == terms[Top.id].outs[Top.outIdx] IN
       IF \E j \in 1..Len(terms[Top.id].outs) : OutputMissing(terms[Top.id].outs[j])
       THEN /\ Throw("BuildIncomplete")
            /\ UNCHANGED <<dbPath2Id, regd>>
       ELSE /\ dbPath2Id' = [dbPath2Id EXCEPT ![o.path] = o.id]
            /\ regd' = regd \cup {<<Top.id, o.path>>}
            /\ stack' = SetTop(stack,
                 [Top EXCEPT !.outIdx = Top.outIdx + 1,
                             !.slice = [Top.slice EXCEPT
                                          !.roots = Append(Top.slice.roots, o.id)]])
            /\ UNCHANGED result
  /\ UNCHANGED <<terms, fs, dbSuccessors, tmpDirs, children,
                 call, pre, ran, checked, expanded, prev, status, calls, succs, registered>>

\* lines 551-561: one iteration of the output loop
RegisterOutput ==
  /\ In("normaliseFState", "outputs")
  /\ Top.outIdx <= Len(terms[Top.id].outs)
  /\ LET o == terms[Top.id].outs[Top.outIdx] IN
       IF OutputMissing(o)
       THEN /\ Throw("BuildIncomplete")
            /\ UNCHANGED <<dbPath2Id, regd>>
       ELSE /\ dbPath2Id' = [dbPath2Id EXCEPT ![o.path] = o.id]
            /\ regd' = regd \cup {<<Top.id, o.path>>}
            /\ stack' = SetTop(stack,
                 [Top EXCEPT !.outIdx = Top.outIdx + 1,
                             !.slice = [Top.slice EXCEPT
                                          !.roots = Append(Top.slice.roots, o.id)]])
            /\ UNCHANGED result
  /\ UNCHANGED <<terms, fs, dbSuccessors, tmpDirs, children,
                 call, pre, ran, checked, expanded, prev, status, calls, succs, registered>>

\* line 563: return slice
ReturnDerive ==
  /\ In("normaliseFState", "outputs")
  /\ Top.outIdx > Len(terms[Top.id].outs)
  /\ ReturnSlice(Top.slice)
  /\ UNCHANGED <<terms, fs, dbPath2Id, dbSuccessors, tmpDirs, children,
                 call, pre, ran, regd, checked, expanded, prev, status, calls, succs, registered>>

(* ------------------------------ runProgram ----------------------------- *)

\* lines 41-55: log pipe and working directory; either may fail
RunStart ==
  /\ In("runProgram", "start")
  /\ \E ok \in BOOLEAN :
       IF ok
       THEN /\ tmpDirs' = tmpDirs + 1
            /\ stack' = SetTop(stack, [Top EXCEPT !.pc = "fork"])
            /\ UNCHANGED result
       ELSE /\ Throw("BuildError")
            /\ UNCHANGED tmpDirs
  /\ UNCHANGED <<terms, fs, dbPath2Id, dbSuccessors, children,
                 call, pre, ran, regd, checked, expanded, prev, status, calls, succs, registered>>

\* a guard whose destructor leaves the directory in place
AutoDeleteNever(n) == n

\* ~AutoDelete, lines 30-33: runs when runProgram's scope is left
AutoDelete(n) == n - 1

\* a fork whose parent returns without waiting for the child
ForkNoWait ==
  /\ In("runProgram", "fork")
  /\ \E ok \in BOOLEAN :
       IF ok
       THEN /\ children' = children + 1
            /\ stack' = SetTop(Pop(stack),
                          [stack[Len(stack) - 1] EXCEPT !.pc = "outputs"])
            /\ tmpDirs' = AutoDelete(tmpDirs)
            /\ UNCHANGED result
       ELSE /\ Throw("BuildError")
            /\ tmpDirs' = AutoDelete(tmpDirs)
            /\ UNCHANGED children
  /\ UNCHANGED <<terms, fs, dbPath2Id, dbSuccessors,
                 call, pre, ran, regd, checked, expanded, prev, status, calls, succs, registered>>

\* lines 59-62: fork
Fork ==
  /\ In("runProgram", "fork")
  /\ \E ok \in BOOLEAN :
       IF ok
       THEN /\ children' = children + 1
            /\ stack' = SetTop(stack, [Top EXCEPT !.pc = "wait"])
            /\ UNCHANGED <<result, tmpDirs>>
       ELSE /\ Throw("BuildError")
            /\ tmpDirs' = AutoDelete(tmpDirs)
            /\ UNCHANGED children
  /\ UNCHANGED <<terms, fs, dbPath2Id, dbSuccessors,
                 call, pre, ran, regd, checked, expanded, prev, status, calls, succs, registered>>

Statuses == {"exit0", "exit1", "signal"}

\* what a builder leaves on disk: it may create any absent path
Writes == [Paths -> Hashes \cup {"keep"}]

\* lines 64-101: the child runs the builder (or fails to) and ends
ChildExit ==
  /\ In("runProgram", "wait")
  /\ \E st \in Statuses, w \in Writes :
       /\ \A p \in Paths : pathExists(p) => w[p] = "keep"
       /\ fs' = [p \in Paths |-> IF w[p] = "keep" THEN fs[p] ELSE w[p]]
       /\ stack' = SetTop(stack, [Top EXCEPT !.pc = "reap"])
       /\ status' = st
  /\ children' = children - 1
  /\ UNCHANGED <<terms, dbPath2Id, dbSuccessors, tmpDirs,
                 call, result, pre, ran, regd, checked, expanded, prev, calls, succs, registered>>

\* a status check that lets every child status pass
StatusOkAlways(st) == TRUE

\* line 117
StatusOk(st) == st = "exit0"

\* lines 114-119: waitpid returns; status check; return to line 547
Reap ==
  /\ In("runProgram", "reap")
  /\ \E waited \in BOOLEAN :
       IF waited /\ StatusOk(status)
       THEN /\ stack' = SetTop(Pop(stack),
                          [stack[Len(stack) - 1] EXCEPT !.pc = "outputs"])
            /\ UNCHANGED result
       ELSE Throw("BuildError")
  /\ tmpDirs' = AutoDelete(tmpDirs)
  /\ UNCHANGED <<terms, fs, dbPath2Id, dbSuccessors, children,
                 call, pre, ran, regd, checked, expanded, prev, status, calls, succs, registered>>

(* ----------------------------- realiseSlice ---------------------------- *)

SliceElems == {SliceElem(p, h) : p \in Paths, h \in Hashes}

ElemSeqs == UNION {[1..n -> SliceElems] : n \in 0..MaxElems}

\* the embedder calls realiseSlice(sl)
realiseCall(sl) ==
  /\ Idle
  /\ calls < MaxCalls
  /\ calls = 0 \/ call = [fn |-> "realiseSlice", slice |-> sl]
  /\ stack' = <<RFrame(sl)>>
  /\ call' = [fn |-> "realiseSlice", slice |-> sl]
  /\ result' = Running
  /\ pre' = [fs |-> fs, db |-> dbPath2Id]
  /\ ran' = {}
  /\ regd' = {}
  /\ checked' = {}
  /\ expanded' = {}
  /\ prev' = result
  /\ calls' = calls + 1
  /\ UNCHANGED <<terms, fs, dbPath2Id, dbSuccessors, tmpDirs, children, status, succs, registered>>

\* an installation check that never finds the slice installed
ScanNeverInstalled(elems, i) ==
  IF \E k \in i..Len(elems) :
       \/ dbPath2Id[elems[k].path] = NoId /\ pathExists(elems[k].path)
       \/ dbPath2Id[elems[k].path] \notin {NoId, elems[k].id}
  THEN "obstructed"
  ELSE "missing"

\* lines 577-591: the installation check, from element i on
RECURSIVE Scan(_, _)
Scan(elems, i) ==
  IF i > Len(elems) THEN "installed"
  ELSE LET e == elems[i] IN
       IF dbPath2Id[e.path] = NoId
       THEN (IF pathExists(e.path) THEN "obstructed" ELSE "missing")
       ELSE IF dbPath2Id[e.path] # e.id THEN "obstructed"
       ELSE Scan(elems, i + 1)

\* lines 572-596
RealiseCheck ==
  /\ In("realiseSlice", "check")
  /\ LET es == Top.slice.elems IN
       IF Len(es) = 0 THEN Throw("EmptySlice")
       ELSE IF Scan(es, 1) = "obstructed" THEN Throw("PathObstructed")
       ELSE IF Scan(es, 1) = "installed" THEN ReturnVoid
       ELSE /\ stack' = SetTop(stack, [Top EXCEPT !.pc = "expand"])
            /\ UNCHANGED result
  /\ UNCHANGED <<terms, fs, dbPath2Id, dbSuccessors, tmpDirs, children,
                 call, pre, ran, regd, checked, expanded, prev, status, calls, succs, registered>>

\* store.cc expandId(id, target): the blob is put at target and target is
\* registered under id; it fails when the content is not at hand
ExpandElem ==
  /\ In("realiseSlice", "expand")
  /\ Top.idx <= Len(Top.slice.elems)
  /\ LET e == Top.slice.elems[Top.idx] IN
       \E ok \in BOOLEAN :
         IF ok
         THEN /\ fs' = [fs EXCEPT ![e.path] = e.id]
              /\ dbPath2Id' = [dbPath2Id EXCEPT ![e.path] = e.id]
              /\ expanded' = expanded \cup {e.path}
              /\ stack' = SetTop(stack, [Top EXCEPT !.idx = Top.idx + 1])
              /\ UNCHANGED result
         ELSE /\ Throw("StoreError")
              /\ expanded' = expanded \cup {e.path}
              /\ UNCHANGED <<fs, dbPath2Id>>
  /\ UNCHANGED <<terms, dbSuccessors, tmpDirs, children,
                 call, pre, ran, regd, checked, prev, status, calls, succs, registered>>

\* an obstruction check made once more after the expansion loop
RealiseReturnRescan ==
  /\ In("realiseSlice", "expand")
  /\ Top.idx > Len(Top.slice.elems)
  /\ IF Scan(Top.slice.elems, 1) = "obstructed"
     THEN Throw("PathObstructed")
     ELSE ReturnVoid
  /\ UNCHANGED <<terms, fs, dbPath2Id, dbSuccessors, tmpDirs, children,
                 call, pre, ran, regd, checked, expanded, prev, status, calls, succs, registered>>

\* line 605: the expansion loop is over
RealiseReturn ==
  /\ In("realiseSlice", "expand")
  /\ Top.idx > Len(Top.slice.elems)
  /\ ReturnVoid
  /\ UNCHANGED <<terms, fs, dbPath2Id, dbSuccessors, tmpDirs, children,
                 call, pre, ran, regd, checked, expanded, prev, status, calls, succs, registered>>

(* ----------------------------- environment ----------------------------- *)

\* lines 183-186
registerSuccessor(id1, id2) ==
  /\ Idle
  /\ calls = 0
  /\ succs < MaxSucc
  /\ dbSuccessors' = [dbSuccessors EXCEPT ![id1] = id2]
  /\ succs' = succs + 1
  /\ registered' = registered \cup {<<id1, id2>>}
  /\ UNCHANGED <<terms, fs, dbPath2Id, stack, tmpDirs, children,
                 call, result, pre, ran, regd, checked, expanded, prev, status, calls>>

(* ---------------------------- specification ---------------------------- *)

\* the steps of normaliseFState, runProgram and realiseSlice
Step ==
  \/ Chase
  \/ Load
  \/ CallInput
  \/ CallRealise
  \/ Precheck
  \/ RunStart
  \/ Fork
  \/ ChildExit
  \/ Reap
  \/ RegisterOutput
  \/ ReturnDerive
  \/ RealiseCheck
  \/ ExpandElem
  \/ RealiseReturn

\* normalisation from any state of the store paths
Next ==
  \/ \E i \in Ids : normaliseCall(i)
  \/ Step

Spec == Init /\ [][Next]_vars

\* realisation of any slice from any state of the store paths
InitRealise ==
  InitFrom({StoreOf(NoTerm, OtherTerm, DeriveTerm(<<Ob>>, <<"I1", "I2">>, "host"))},
           AllPathStates, {NoSuccessors})

NextRealise ==
  \/ \E e \in ElemSeqs : realiseCall([roots |-> <<>>, elems |-> e])
  \/ RealiseCheck
  \/ ExpandElem
  \/ RealiseReturn

SpecRealise == InitRealise /\ [][NextRealise]_vars

\* normalisation after any registerSuccessor calls, on an empty store directory
SuccStores ==
  {StoreOf(t1, t2, DeriveTerm(<<Ob>>, <<"I1", "I2">>, "host")) :
     t1 \in {SliceTerm(<<"H1">>, <<Ea1>>), DeriveTerm(<<Oa>>, <<>>, "host")},
     t2 \in {SliceTerm(<<"H2">>, <<Eb2>>), OtherTerm, NoTerm}}

InitSucc == InitFrom(SuccStores, {<<Absent, NoId>>, <<"H1", "H1">>}, {NoSuccessors})

NextSucc ==
  \/ \E id1 \in Ids, id2 \in Ids : registerSuccessor(id1, id2)
  \/ Next

SpecSucc == InitSucc /\ [][NextSucc]_vars

(* ------------------------------- claims -------------------------------- *)

IsDerive(d) == terms[d].type = "Derive"

\* the top-level call has returned or thrown
Finished == Idle /\ calls > 0

\* the finished or running top-level call is normaliseFState(d), and d has
\* no successor, so the term it works on is the one stored under d
NormaliseOf(d) ==
  /\ call.fn = "normaliseFState"
  /\ call.id = d
  /\ dbSuccessors[d] = NoId

\* some declared output existed when the top-level call started
ExistedBefore(outs) == \E k \in 1..Len(outs) : pre.fs[outs[k].path] # Absent

\* C1 as stated: normaliseFState on a Derive one of whose declared outputs
\* already exists raises OutputObstructed and does not spawn the builder.
C1_Original ==
  \A d \in Ids :
    (Finished /\ NormaliseOf(d) /\ IsDerive(d) /\ ExistedBefore(terms[d].outs))
      => (result = Thrown("OutputObstructed") /\ d \notin ran)

\* C1 amended: for every Derive one of whose declared outputs exists when the
\* top-level call starts, at whatever position of outs, the builder is never
\* spawned, and normaliseFState raises OutputObstructed as soon as it makes
\* the Derive's output precheck (an earlier platform or input error wins).
C1_PreexistingOutput ==
  \A d \in Ids :
    (IsDerive(d) /\ ExistedBefore(terms[d].outs))
      => /\ d \notin ran
         /\ d \in checked => (Idle /\ result = Thrown("OutputObstructed"))

\* the second of two declared outputs pre-exists, the first does not, and
\* the precheck has thrown
C1_Witness ==
  \E d \in Ids :
    /\ IsDerive(d)
    /\ Len(terms[d].outs) = 2
    /\ pre.fs[terms[d].outs[1].path] = Absent
    /\ pre.fs[terms[d].outs[2].path] # Absent
    /\ d \in checked
    /\ result = Thrown("OutputObstructed")

Frames(fn) == {k \in 1..Len(stack) : stack[k].fn = fn}

AllOutputsExist(outs) == \A k \in 1..Len(outs) : pathExists(outs[k].path)

DeclaredIds(outs) == [k \in 1..Len(outs) |-> outs[k].id]

\* C2: once runProgram has returned normally, the Derive branch returns only
\* when every declared output exists and raises BuildIncomplete otherwise;
\* every path it registers exists (it has passed pathExists) when registered.
C2_PostBuild ==
  /\ \A k \in Frames("normaliseFState") :
       stack[k].pc = "outputs" =>
         \A j \in 1..(stack[k].outIdx - 1) :
           pathExists(terms[stack[k].id].outs[j].path)
  /\ \A r \in regd : pathExists(r[2])
  /\ \A d \in Ids :
       (Finished /\ NormaliseOf(d) /\ IsDerive(d) /\ d \in ran
          /\ result # Thrown("BuildError"))
         => \/ AllOutputsExist(terms[d].outs) /\ result.kind = "slice"
            \/ ~AllOutputsExist(terms[d].outs) /\ result = Thrown("BuildIncomplete")

\* the builder exited 0 having made the first declared output but not the
\* second: the first is registered, BuildIncomplete is raised
C2_Witness ==
  \E d \in Ids :
    /\ Finished /\ NormaliseOf(d) /\ IsDerive(d) /\ d \in ran
    /\ status = "exit0"
    /\ result = Thrown("BuildIncomplete")
    /\ regd = {<<d, terms[d].outs[1].path>>}

\* C3 as stated: the slice normaliseFState returns for a Derive has the
\* declared ids as roots, in order, and an element (path, declaredId, refs)
\* for every declared output, so that roots are among the ids of elems.
C3_DeriveSlice ==
  \A d \in Ids :
    (Finished /\ NormaliseOf(d) /\ IsDerive(d) /\ result.kind = "slice")
      => LET outs == terms[d].outs
             sl == result.slice IN
         /\ sl.roots = DeclaredIds(outs)
         /\ \A k \in 1..Len(outs) :
              \E j \in 1..Len(sl.elems) :
                sl.elems[j].path = outs[k].path /\ sl.elems[j].id = outs[k].id
         /\ \A k \in 1..Len(sl.roots) :
              \E j \in 1..Len(sl.elems) : sl.elems[j].id = sl.roots[k]

\* C9: a Derive whose platform is not the host's never gets past the
\* platform check: normaliseFState raises PlatformMismatch with no input
\* normalised or realised, no builder spawned, nothing registered, and the
\* filesystem and dbPath2Id as they were.
C9_PlatformGate ==
  /\ \A k \in Frames("normaliseFState") :
       stack[k].pc # "chase" => terms[stack[k].id].platform = thisSystem
  /\ \A d \in Ids :
       (Finished /\ NormaliseOf(d) /\ IsDerive(d)
          /\ terms[d].platform # thisSystem)
         => /\ result = Thrown("PlatformMismatch")
            /\ fs = pre.fs
            /\ dbPath2Id = pre.db
            /\ ran = {} /\ regd = {} /\ checked = {} /\ expanded = {}

\* a Derive for another platform, with inputs, has been refused
C9_Witness ==
  \E d \in Ids :
    /\ Finished /\ NormaliseOf(d) /\ IsDerive(d)
    /\ terms[d].platform # thisSystem
    /\ Len(terms[d].ins) > 0
    /\ result = Thrown("PlatformMismatch")

\* C10: the output loop is entered only after a child that exited with
\* status 0; a builder that cannot be launched, exits non-zero or is killed
\* makes normaliseFState raise BuildError, and that call registers none of
\* the Derive's declared outputs.
C10_BuildFailure ==
  /\ \A k \in Frames("normaliseFState") :
       stack[k].pc = "outputs" => status = "exit0"
  /\ (Finished /\ ran # {} /\ status # "exit0") => result = Thrown("BuildError")
  /\ \A d \in ran :
       (Finished /\ result = Thrown("BuildError"))
         => \A k \in 1..Len(terms[d].outs) :
              /\ <<d, terms[d].outs[k].path>> \notin regd
              /\ dbPath2Id[terms[d].outs[k].path] = pre.db[terms[d].outs[k].path]

\* the builder made a declared output and was then killed by a signal:
\* BuildError, the output is on disk and is not registered
C10_Witness ==
  \E d \in ran :
    /\ Finished
    /\ status = "signal"
    /\ result = Thrown("BuildError")
    /\ \E k \in 1..Len(terms[d].outs) :
         /\ pathExists(terms[d].outs[k].path)
         /\ dbPath2Id[terms[d].outs[k].path] = NoId

\* an element whose path was on disk, and not registered under the element's
\* id, when the top-level call started
ObstructedBefore(e) == pre.fs[e.path] # Absent /\ pre.db[e.path] # e.id

\* C7 as stated: realiseSlice raises PathObstructed whenever any element's
\* path is on disk unregistered or registered under another id, also when an
\* earlier element of the slice is missing.
C7_ObstructionDetected ==
  (Finished /\ call.fn = "realiseSlice")
    => \A k \in 1..Len(call.slice.elems) :
         ObstructedBefore(call.slice.elems[k]) => result = Thrown("PathObstructed")

\* no path is given two different ids by the elements
OnePathOneId(es) ==
  \A j \in 1..Len(es), k \in 1..Len(es) : es[j].path = es[k].path => es[j].id = es[k].id

\* C8 as stated: realiseSlice(s) made again right after it succeeded raises
\* nothing and changes nothing.
C8_Original ==
  (Finished /\ calls >= 2 /\ call.fn = "realiseSlice" /\ prev = Done)
    => /\ result = Done
       /\ expanded = {}
       /\ fs = pre.fs
       /\ dbPath2Id = pre.db

\* C8 amended: for a slice whose elements give no path two different ids,
\* realiseSlice(s) made again right after it succeeded raises nothing, calls
\* expandId for no element and leaves filesystem and dbPath2Id as they were.
C8_Idempotent ==
  (Finished /\ calls >= 2 /\ call.fn = "realiseSlice" /\ prev = Done
     /\ OnePathOneId(call.slice.elems))
    => /\ result = Done
       /\ expanded = {}
       /\ fs = pre.fs
       /\ dbPath2Id = pre.db

\* a slice of two elements at two paths has been realised twice in a row
C8_Witness ==
  /\ Finished /\ calls >= 2 /\ call.fn = "realiseSlice"
  /\ prev = Done /\ result = Done
  /\ Len(call.slice.elems) = 2
  /\ call.slice.elems[1].path # call.slice.elems[2].path
  /\ \A k \in 1..2 : fs[call.slice.elems[k].path] = call.slice.elems[k].id

\* C4 as stated: after normaliseFState(d) built Derive d and returned slice
\* S, dbSuccessors[d] is the id of a Slice term equal to S, and the call
\* made again right away returns S without running the builder.
C4_Memoised ==
  \A d \in Ids :
    (Finished /\ NormaliseOf(d) /\ IsDerive(d))
      => /\ (calls = 1 /\ d \in ran /\ result.kind = "slice")
              => /\ dbSuccessors[d] # NoId
                 /\ terms[dbSuccessors[d]].type = "Slice"
                 /\ parseSlice(terms[dbSuccessors[d]]) = result.slice
         /\ (calls = 2 /\ prev.kind = "slice")
              => /\ result = prev
                 /\ ran = {}

\* C5 as stated, through the number of successor hops one call makes: a
\* chase that stops at the first id it meets twice makes at most as many
\* hops as there are ids, so a call that makes more never leaves a cycle.
C5_ChaseTerminates ==
  \A k \in Frames("normaliseFState") : stack[k].hops <= Cardinality(Ids)

\* the id the successor chase from i ends at, within n hops
RECURSIVE FinalId(_, _)
FinalId(i, n) ==
  IF dbSuccessors[i] = NoId \/ n = 0 THEN i ELSE FinalId(dbSuccessors[i], n - 1)

ChaseEnds(i) == dbSuccessors[FinalId(i, Cardinality(Ids))] = NoId

\* r is an outcome of normalising the term stored under f, an id without
\* successor: fixed by the term unless the term is a Derive for this platform
ResultFits(r, f) ==
  LET t == terms[f] IN
    IF t.type = "NoTerm" THEN r = Thrown("StoreError")
    ELSE IF t.type = "Slice" THEN r = Returned(parseSlice(t))
    ELSE IF t.type # "Derive" THEN r = Thrown("BadTerm")
    ELSE IF t.platform # thisSystem THEN r = Thrown("PlatformMismatch")
    ELSE \/ r.kind = "error"
         \/ r = Returned([roots |-> [k \in 1..Len(t.outs) |-> t.outs[k].id],
                          elems |-> <<>>])

\* C6 as stated: once registerSuccessor(a, b) has been called,
\* normaliseFState(a) ends as normaliseFState(b) does.
C6_Original ==
  \A ab \in registered :
    (Finished /\ call = [fn |-> "normaliseFState", id |-> ab[1]] /\ ChaseEnds(ab[2]))
      => ResultFits(result, FinalId(ab[2], Cardinality(Ids)))

\* C6 amended: while b is the successor recorded for a (the last
\* registerSuccessor(a, .) call named b), normaliseFState(a) is
\* normaliseFState(b): the chase from a leaves the frame normaliseFState(b)
\* starts with, a term is parsed only under an id that has no successor, and
\* both calls end as the term at the end of b's chain prescribes.
C6_SuccessorSound ==
  /\ \A k \in Frames("normaliseFState") :
       IF stack[k].pc = "chase"
       THEN stack[k] = [NFrame(stack[k].id) EXCEPT !.arg = stack[k].arg,
                                                   !.hops = stack[k].hops]
       ELSE dbSuccessors[stack[k].id] = NoId
  /\ \A a \in Ids, b \in Ids :
       (Finished /\ call.fn = "normaliseFState" /\ dbSuccessors[a] = b
          /\ call.id \in {a, b} /\ ChaseEnds(b))
         => ResultFits(result, FinalId(b, Cardinality(Ids)))

\* normaliseFState(a), a a Derive with a registered successor b that is a
\* Slice, returned b's slice
C6_Witness ==
  \E a \in Ids, b \in Ids :
    /\ <<a, b>> \in registered /\ dbSuccessors[a] = b /\ a # b
    /\ Finished /\ call = [fn |-> "normaliseFState", id |-> a]
    /\ IsDerive(a) /\ terms[b].type = "Slice" /\ dbSuccessors[b] = NoId
    /\ result = Returned(parseSlice(terms[b]))

\* C11 as stated: when the successor recorded for a has no readable term in
\* the store, normaliseFState(a) does not fail because of it and ends as the
\* well-formed term stored under a prescribes.
C11_BrokenSuccessor ==
  \A a \in Ids :
    (Finished /\ call = [fn |-> "normaliseFState", id |-> a]
       /\ terms[a].type # "NoTerm"
       /\ dbSuccessors[a] # NoId /\ terms[dbSuccessors[a]].type = "NoTerm")
      => ResultFits(result, a)

\* C12 as stated: after normaliseFState succeeded on Derive d by building
\* it, what is at every declared output path hashes to the declared id.
C12_OutputHash ==
  \A d \in Ids :
    (Finished /\ NormaliseOf(d) /\ IsDerive(d) /\ result.kind = "slice")
      => \A k \in 1..Len(terms[d].outs) :
           fs[terms[d].outs[k].path] = terms[d].outs[k].id

\* the runProgram calls in progress that have made their working directory
WithTmpDir ==
  {k \in Frames("runProgram") : stack[k].pc \in {"fork", "wait", "reap"}}

\* C13: the working directories on disk are exactly those of the runProgram
\* calls still in progress past mkdir; once runProgram has returned or
\* raised (fork failure, wait failure, bad child status, normal return) its
\* directory is gone, and none is left when the top-level call is over.
C13_TmpDirCleanup ==
  /\ tmpDirs = Cardinality(WithTmpDir)
  /\ Idle => tmpDirs = 0

\* a builder ran in its working directory and failed; the call is over
C13_Witness ==
  /\ Finished /\ calls = 1 /\ ran # {}
  /\ status = "exit1"
  /\ result = Thrown("BuildError")
  /\ tmpDirs = 0

\* C14: at most one builder child is alive at any moment of a top-level
\* call; it is alive only while the innermost frame is the runProgram call
\* that forked it and waits for it, and no Derive frame other than that
\* call's caller is inside runProgram.
C14_OneBuilder ==
  /\ children <= 1
  /\ children = Cardinality({k \in Frames("runProgram") : stack[k].pc = "wait"})
  /\ \A k \in Frames("runProgram") : k = Len(stack)
  /\ \A k \in Frames("normaliseFState") :
       stack[k].pc = "waitRun" => k = Len(stack) - 1

\* the builder of a Derive that is an input of the Derive being normalised
\* is running
C14_Witness ==
  /\ children = 1
  /\ Len(stack) >= 3
  /\ stack[1].fn = "normaliseFState" /\ stack[1].pc = "waitNorm"
  /\ Top.fn = "runProgram" /\ Top.pc = "wait"

\* the id whose term normaliseFState(i) loads
Fin(i) == FinalId(i, Cardinality(Ids))

\* lines 504-509: the elements gathered from the first n inputs, in order
RECURSIVE InputElems(_, _)
InputElems(ins, n) ==
  IF n = 0 THEN <<>>
  ELSE InputElems(ins, n - 1) \o parseSlice(terms[Fin(ins[n])]).elems

\* C15: in every Derive frame, inputs are taken one at a time in list order:
\* those before inIdx have been normalised to a slice and realised (their
\* elements gathered in order, their paths registered), the one at inIdx is
\* the only one being normalised or realised, none after it has been
\* started, and the frame reaches the output precheck and runProgram only
\* with all inputs done.
C15_InputOrder ==
  \A k \in Frames("normaliseFState") :
    stack[k].pc # "chase" =>
      LET f == stack[k]
          ins == terms[f.id].ins
      IN /\ f.inIdx \in 1..(Len(ins) + 1)
         /\ \A j \in 1..(f.inIdx - 1) :
              /\ terms[Fin(ins[j])].type = "Slice"
              /\ \A e \in ElemPaths(parseSlice(terms[Fin(ins[j])]).elems) :
                   dbPath2Id[e] # NoId
         /\ f.inElems = InputElems(ins, f.inIdx - 1)
         /\ f.pc = "inputs" => k = Len(stack)
         /\ f.pc = "waitNorm" =>
              /\ k < Len(stack)
              /\ stack[k + 1].fn = "normaliseFState"
              /\ stack[k + 1].arg = ins[f.inIdx]
         /\ f.pc = "realise" => (k = Len(stack) /\ f.inIdx <= Len(ins))
         /\ f.pc = "waitReal" =>
              /\ k + 1 = Len(stack)
              /\ stack[k + 1].fn = "realiseSlice"
              /\ stack[k + 1].slice = f.cur
         /\ f.pc \in {"waitRun", "outputs"} => f.inIdx = Len(ins) + 1

\* the builder of a Derive with two inputs runs, both inputs done
C15_Witness ==
  /\ Len(stack) = 2
  /\ stack[1].fn = "normaliseFState" /\ stack[1].pc = "waitRun"
  /\ Len(terms[stack[1].id].ins) = 2
  /\ Len(stack[1].inElems) >= 2
  /\ expanded # {}
  /\ children = 1

\* normalising and realising input i is bound to raise: its term is missing,
\* is no Slice (a Derive input comes back without elements), or has no
\* elements
InputMustFail(i) ==
  \/ terms[Fin(i)].type # "Slice"
  \/ terms[Fin(i)].elems = <<>>

\* Derive d has left no trace: builder not spawned, outputs not prechecked,
\* none of its outputs registered by it
Untouched(d) ==
  /\ d \notin ran
  /\ d \notin checked
  /\ \A j \in 1..Len(terms[d].outs) : <<d, terms[d].outs[j].path>> \notin regd

\* a step that raises while Derive frames wait for an input: every frame is
\* unwound by that one error, and the step spawns and registers nothing
C16_Step ==
  (result'.kind = "error" /\ result = Running)
    => /\ stack' = <<>>
       /\ \A k \in Frames("normaliseFState") :
            stack[k].pc \in {"waitNorm", "waitReal"}
              => /\ Untouched(stack[k].id)
                 /\ ran' = ran /\ regd' = regd
                 /\ dbPath2Id' = dbPath2Id

\* C16: when normalising or realising an input of a Derive raises, the error
\* unwinds the Derive and every caller in the same step, so the call ends
\* with that error and no later input is started; a Derive still in its
\* input loop, or one with an input that is bound to fail, has not spawned
\* its builder, prechecked or registered any of its outputs; and when the
\* first input fails for a reason fixed by its term, that reason is what
\* normaliseFState on the Derive raises.
C16_ErrorPropagation ==
  /\ [](\A k \in Frames("normaliseFState") :
          stack[k].pc # "chase" =>
            LET d == stack[k].id IN
              /\ stack[k].pc \in {"inputs", "waitNorm", "realise", "waitReal"}
                   => Untouched(d)
              /\ (\E j \in 1..Len(terms[d].ins) : InputMustFail(terms[d].ins[j]))
                   => stack[k].pc \in {"inputs", "waitNorm", "realise", "waitReal"})
  /\ [](\A d \in Ids :
          (Finished /\ NormaliseOf(d) /\ IsDerive(d)
             /\ checkPlatform(terms[d].platform)
             /\ \E j \in 1..Len(terms[d].ins) : InputMustFail(terms[d].ins[j]))
            => /\ result.kind = "error"
               /\ Untouched(d)
               /\ (terms[Fin(terms[d].ins[1])].type \notin {"Slice", "Derive"}
                     /\ ChaseEnds(terms[d].ins[1]))
                    => ResultFits(result, Fin(terms[d].ins[1])))
  /\ [][C16_Step]_vars

\* normaliseFState on a Derive with two inputs ended with the error of its
\* second input, after the first had been realised
C16_Witness ==
  \E d \in Ids :
    /\ Finished /\ NormaliseOf(d) /\ IsDerive(d)
    /\ Len(terms[d].ins) = 2
    /\ ~InputMustFail(terms[d].ins[1])
    /\ terms[Fin(terms[d].ins[2])].type = "Include"
    /\ result = Thrown("BadTerm")
    /\ expanded # {}
    /\ Untouched(d)

\* C17 as stated: when an input of Derive d is itself a Derive without
\* successor whose builder ran and whose outputs were all created and
\* registered, realising the slice returned for it does not raise
\* EmptySlice.
C17_DeriveInput ==
  \A d \in Ids, i \in Ids :
    (Finished /\ NormaliseOf(d) /\ IsDerive(d)
       /\ \E j \in 1..Len(terms[d].ins) : terms[d].ins[j] = i
       /\ IsDerive(i) /\ dbSuccessors[i] = NoId
       /\ i \in ran
       /\ \A k \in 1..Len(terms[i].outs) : <<i, terms[i].outs[k].path>> \in regd)
      => result # Thrown("EmptySlice")

\* C18: when realiseSlice raises EmptySlice or PathObstructed it has called
\* expandId for no element, and the filesystem and dbPath2Id are as they
\* were when it was called.
C18_NoExpansion ==
  (Finished /\ call.fn = "realiseSlice"
     /\ result \in {Thrown("EmptySlice"), Thrown("PathObstructed")})
    => /\ expanded = {}
       /\ fs = pre.fs
       /\ dbPath2Id = pre.db

\* realiseSlice raised PathObstructed for a slice whose first element is
\* installed and whose second element is obstructed
C18_Witness ==
  /\ Finished /\ call.fn = "realiseSlice"
  /\ result = Thrown("PathObstructed")
  /\ Len(call.slice.elems) = 2
  /\ pre.db[call.slice.elems[1].path] = call.slice.elems[1].id
  /\ call.slice.elems[1].path # call.slice.elems[2].path
  /\ ObstructedBefore(call.slice.elems[2])

\* C19: when the call ends with BuildIncomplete after the builder of Derive
\* d ran, there is a first declared output k that is not on disk; the
\* outputs before k were registered by d under their declared ids, and no
\* output from k on was registered: dbPath2Id is there as before the call.
C19_PartialRegistration ==
  \A d \in ran :
    (Finished /\ call.fn = "normaliseFState" /\ result = Thrown("BuildIncomplete"))
      => LET outs == terms[d].outs IN
           \E k \in 1..Len(outs) :
             /\ ~pathExists(outs[k].path)
             /\ \A j \in 1..(k - 1) :
                  /\ pathExists(outs[j].path)
                  /\ <<d, outs[j].path>> \in regd
                  /\ dbPath2Id[outs[j].path] = outs[j].id
             /\ \A j \in k..Len(outs) :
                  /\ <<d, outs[j].path>> \notin regd
                  /\ dbPath2Id[outs[j].path] = pre.db[outs[j].path]

\* BuildIncomplete for the second of two declared outputs, the first one
\* registered
C19_Witness ==
  \E d \in ran :
    /\ Finished /\ call.fn = "normaliseFState"
    /\ result = Thrown("BuildIncomplete")
    /\ Len(terms[d].outs) = 2
    /\ dbPath2Id[terms[d].outs[1].path] = terms[d].outs[1].id
    /\ pre.db[terms[d].outs[1].path] = NoId
    /\ <<d, terms[d].outs[1].path>> \in regd
    /\ ~pathExists(terms[d].outs[2].path)

====
